---- MODULE Spec2Model ----
(***************************************************************************)
(* Model of the AT24CM0X serial EEPROM driver (src/at24cm0x.c, .h).        *)
(*                                                                         *)
(* The driver's public operations are the actions.  Every operation is a   *)
(* straight-line sequence of calls of the two-wire bus primitives          *)
(* (twi_start, twi_address, twi_set, twi_get, twi_stop), of the delay      *)
(* source and of the write-protect pin.  The primitives act on a "world"   *)
(* record that holds the driver's global, the pin, the EEPROM chips on the *)
(* bus and the log of the calls made.  A fault is injected into a          *)
(* primitive by its call number.                                           *)
(***************************************************************************)
EXTENDS Integers, Sequences, FiniteSets, TLC

VARIABLES
    build,                        \* the compile-time switches of the binary
    at24cm0x_device_identifier,   \* at24cm0x.c:22
    wp_pin,                       \* level of the write-protect line
    mem,                          \* cells of the chips that were programmed
    worn,                         \* cells that no longer take programming
    ptr,                          \* internal address counter of each chip
    pc,                           \* "idle", or "poll" inside acknowledge polling
    call,                         \* the operation called last and its arguments
    status,                       \* its return value ("running" until it returns)
    out,                          \* the bytes it stored through its data pointer
    trace,                        \* the bus, delay and pin calls it made
    acc,                          \* its accumulated TWI error
    ops                           \* number of operations called so far

vars == <<build, at24cm0x_device_identifier, wp_pin, mem, worn, ptr, pc, call,
          status, out, trace, acc, ops>>

(***************************************************************************)
(* Bounds of the model.                                                    *)
(***************************************************************************)
\* longest buffer handed to write_page and longest sequential read
MaxLen == 3
\* largest number of primitive calls of one operation that are made to fail
MaxFaults == 1
\* number of operations called after at24cm0x_init()
MaxOps == 2

(***************************************************************************)
(* Configuration (at24cm0x.h).                                             *)
(***************************************************************************)
AT24CM0X_MEMORY_SIZE == 262144
AT24CM0X_PAGES == 1024
AT24CM0X_PAGE_SIZE == 256
AT24CM0X_BASE_ADDRESS == 80
AT24CM0X_ADDRESS_MASK == IF AT24CM0X_MEMORY_SIZE < 262144 THEN 6 ELSE 4
AT24CM0X_ADDRESS_HIGH_MASK == IF AT24CM0X_MEMORY_SIZE < 262144 THEN 1 ELSE 3
AT24CM0X_ADDRESS_A2 == 1
AT24CM0X_ADDRESS_A1 == 1
AT24CM0X_WRITE_CYCLE_MS == 10

(***************************************************************************)
(* Integer arithmetic of the C code: unsigned char is 8 bits wide,         *)
(* bitwise and / or on naturals.                                           *)
(***************************************************************************)
RECURSIVE BitAnd(_, _)
BitAnd(x, y) ==
    IF x = 0 \/ y = 0 THEN 0
    ELSE (IF x % 2 = 1 /\ y % 2 = 1 THEN 1 ELSE 0) + 2 * BitAnd(x \div 2, y \div 2)

RECURSIVE BitOr(_, _)
BitOr(x, y) ==
    IF x = 0 THEN y
    ELSE IF y = 0 THEN x
    ELSE (IF x % 2 = 1 \/ y % 2 = 1 THEN 1 ELSE 0) + 2 * BitOr(x \div 2, y \div 2)

\* (unsigned char)(x)
UChar(x) == x % 256

\* x << k and x >> k
Shl(x, k) == x * (2 ^ k)
Shr(x, k) == x \div (2 ^ k)

AT24CM0X_ADDRESS ==
    IF AT24CM0X_MEMORY_SIZE < 262144
    THEN BitOr(BitOr(AT24CM0X_BASE_ADDRESS, Shl(AT24CM0X_ADDRESS_A2, 2)),
               Shl(AT24CM0X_ADDRESS_A1, 1))
    ELSE BitOr(AT24CM0X_BASE_ADDRESS, Shl(AT24CM0X_ADDRESS_A2, 2))

(***************************************************************************)
(* The bus transport (twi.h), the delay source (systick.h) and the         *)
(* write-protect pin are collaborators of the driver.                      *)
(***************************************************************************)
TWI_None == 0
TWI_Ack == 1
TWI_NACK == 2
TWI_Write == "W"
TWI_Read == "R"

AT24CM0X_WP_Mode_Enabled == "Enabled"
AT24CM0X_WP_Mode_Disabled == "Disabled"

AT24CM0X_Status_Done == "Done"
AT24CM0X_Status_Address_Error == "Address_Error"
AT24CM0X_Status_Page_Error == "Page_Error"
AT24CM0X_Status_Size_Error == "Size_Error"
AT24CM0X_Status_Data_Error == "Data_Error"
AT24CM0X_Status_TWI_Error == "TWI_Error"

\* an erased cell, and a released data line, read as 0xFF
Erased == 255

\* the device addresses of the chips on the bus: every strap of the pins
Devices ==
    {BitOr(AT24CM0X_BASE_ADDRESS, s) : s \in {BitAnd(x, AT24CM0X_ADDRESS_MASK) : x \in 0..7}}

\* the chip a device-select byte addresses, and the address bits it carries
DeviceOf(byte) == byte - BitAnd(byte, AT24CM0X_ADDRESS_HIGH_MASK)
HighOf(byte) == BitAnd(byte, AT24CM0X_ADDRESS_HIGH_MASK)

Cell(m, dev, a) == IF <<dev, a>> \in DOMAIN m THEN m[<<dev, a>>] ELSE Erased

Program(m, dev, a, d) ==
    [k \in DOMAIN m \cup {<<dev, a>>} |-> IF k = <<dev, a>> THEN d ELSE m[k]]

\* the result of primitive call number n
Result(w) == IF (w.n + 1) \in w.faults THEN TWI_Ack ELSE TWI_None

twi_start(w) ==
    [w EXCEPT !.trace = Append(@, <<"S">>), !.ph = "idle", !.r = TWI_None]

twi_stop(w) ==
    [w EXCEPT !.trace = Append(@, <<"P">>), !.ph = "idle", !.r = TWI_None]

\* A chip that acknowledges its device-select byte in write direction takes
\* the address bits of that byte and waits for the word address; in read
\* direction it streams from its address counter.  A call that fails reaches
\* no chip, and the chip ignores the rest of the transaction.
twi_address(w, byte, dir) ==
    LET ok == Result(w) = TWI_None /\ DeviceOf(byte) \in Devices
    IN  [w EXCEPT !.trace = Append(@, <<"addr", byte, dir>>),
                  !.n = @ + 1,
                  !.r = Result(w),
                  !.sel = IF ok THEN DeviceOf(byte) ELSE @,
                  !.hi = IF ok /\ dir = TWI_Write THEN HighOf(byte) ELSE @,
                  !.ph = IF ~ok THEN "off"
                         ELSE IF dir = TWI_Write THEN "word1" ELSE "read"]

\* the address counter after a data byte was taken at a: inside a page it
\* rolls over to the start of the page
NextInPage(a) == (a - (a % AT24CM0X_PAGE_SIZE)) + ((a + 1) % AT24CM0X_PAGE_SIZE)

\* The first two bytes after the device-select byte are the word address;
\* the chip programs every further byte at its address counter unless the
\* write-protect line is high or the cell is worn out.
twi_set(w, byte) ==
    LET w1 == [w EXCEPT !.trace = Append(@, <<"send", byte>>), !.n = @ + 1,
                        !.r = Result(w)]
    IN  IF Result(w) # TWI_None THEN [w1 EXCEPT !.ph = "off"]
        ELSE IF w.ph = "word1" THEN [w1 EXCEPT !.mid = byte, !.ph = "word2"]
        ELSE IF w.ph = "word2"
             THEN [w1 EXCEPT !.ptr[w.sel] = (Shl(w.hi, 16) + Shl(w.mid, 8) + byte)
                                                % AT24CM0X_MEMORY_SIZE,
                             !.ph = "data"]
        ELSE IF w.ph = "data"
             THEN [w1 EXCEPT !.mem = IF \/ w.pin = AT24CM0X_WP_Mode_Enabled
                                        \/ w.ptr[w.sel] \in w.worn
                                     THEN @
                                     ELSE Program(@, w.sel, w.ptr[w.sel], byte),
                             !.ptr[w.sel] = NextInPage(@)]
        ELSE w1

\* The byte comes from the chip's address counter, which then advances and
\* rolls over at the end of the memory; it is stored at index at of the
\* caller's buffer.  A failed call stores nothing.
twi_get(w, at, ack) ==
    LET w1 == [w EXCEPT !.trace =
                            Append(@, <<"recv", IF ack = TWI_NACK THEN "NACK" ELSE "ACK">>),
                        !.n = @ + 1,
                        !.r = Result(w)]
    IN  IF Result(w) # TWI_None THEN [w1 EXCEPT !.ph = "off"]
        ELSE IF w.ph = "read"
        THEN [w1 EXCEPT !.buf[at] = Cell(w.mem, w.sel, w.ptr[w.sel]),
                        !.ptr[w.sel] = (@ + 1) % AT24CM0X_MEMORY_SIZE,
                        !.ph = IF ack = TWI_NACK THEN "off" ELSE "read"]
        ELSE [w1 EXCEPT !.buf[at] = Erased]

systick_timer_wait_ms(w, ms) ==
    [w EXCEPT !.trace = Append(@, <<"wait", ms>>), !.r = TWI_None]

at24cm0x_wp(w, mode) ==
    [w EXCEPT !.trace = Append(@, <<"wp", mode>>), !.pin = mode, !.r = TWI_None]

(***************************************************************************)
(* The driver's functions are straight-line code: each is written as the   *)
(* sequence of the calls it makes.  keep tells whether the function ORs    *)
(* the call's result into its error variable.                              *)
(***************************************************************************)
Start == [f |-> "start", byte |-> 0, arg |-> "", keep |-> FALSE]
Stop == [f |-> "stop", byte |-> 0, arg |-> "", keep |-> FALSE]
Address(byte, dir) == [f |-> "address", byte |-> byte, arg |-> dir, keep |-> TRUE]
Set(byte) == [f |-> "set", byte |-> byte, arg |-> "", keep |-> TRUE]
Get(at, ack) == [f |-> "get", byte |-> at, arg |-> ack, keep |-> TRUE]
Wait(ms) == [f |-> "wait", byte |-> ms, arg |-> "", keep |-> FALSE]
Wp(mode) == [f |-> "wp", byte |-> 0, arg |-> mode, keep |-> FALSE]

\* a call whose return value is not used
Discard(calls) == [i \in DOMAIN calls |-> [calls[i] EXCEPT !.keep = FALSE]]

\* one call, and error |= its result
Step(w, c) ==
    LET v == CASE c.f = "start" -> twi_start(w)
               [] c.f = "stop" -> twi_stop(w)
               [] c.f = "address" -> twi_address(w, c.byte, c.arg)
               [] c.f = "set" -> twi_set(w, c.byte)
               [] c.f = "get" -> twi_get(w, c.byte, c.arg)
               [] c.f = "wait" -> systick_timer_wait_ms(w, c.byte)
               [] c.f = "wp" -> at24cm0x_wp(w, c.arg)
    IN  IF c.keep THEN [v EXCEPT !.error = BitOr(@, v.r)] ELSE v

\* the calls in order
RECURSIVE Exec(_, _)
Exec(w, calls) ==
    IF calls = <<>> THEN w
    ELSE Exec(CHOOSE x \in {Step(v, Head(calls)) : v \in {w}} : TRUE, Tail(calls))

\* a function's body: TWI_Error error = TWI_None, data its buffer, then the calls
Run(w, data, calls) ==
    Exec([w EXCEPT !.error = TWI_None, !.buf = data], calls)

(***************************************************************************)
(* The driver (at24cm0x.c).                                                *)
(***************************************************************************)
\* mutant: the two word-address bytes in the wrong order
at24cm0x_send_address_Swapped(ident, address) ==
    LET high_byte == BitOr(ident,
                           BitAnd(AT24CM0X_ADDRESS_HIGH_MASK, UChar(Shr(address, 16))))
        middle_byte == UChar(Shr(address, 8))
        low_byte == UChar(address)
    IN  <<Address(high_byte, TWI_Write), Set(low_byte), Set(middle_byte)>>

at24cm0x_send_address(ident, address) ==
    LET high_byte == BitOr(ident,
                           BitAnd(AT24CM0X_ADDRESS_HIGH_MASK, UChar(Shr(address, 16))))
        middle_byte == UChar(Shr(address, 8))
        low_byte == UChar(address)
    IN  <<Address(high_byte, TWI_Write), Set(middle_byte), Set(low_byte)>>

\* mutant: the address counter is set to 0 first
ReadCurrentByteCalls_Repositioned(ident) ==
    <<Start, Address(ident, TWI_Write), Set(0), Set(0), Stop,
      Start, Address(ident, TWI_Read), Get(1, TWI_NACK), Stop>>

ReadCurrentByteCalls(ident) ==
    <<Start, Address(ident, TWI_Read), Get(1, TWI_NACK), Stop>>

\* mutant: the accumulated error is not looked at
at24cm0x_read_current_byte_NoCheck(w, data) ==
    [w |-> Run(w, <<data>>, ReadCurrentByteCalls(w.ident)),
     status |-> AT24CM0X_Status_Done]

\* data is the content of the caller's byte before the call
at24cm0x_read_current_byte(w, data) ==
    LET x == Run(w, <<data>>, ReadCurrentByteCalls(w.ident))
    IN  [w |-> x,
         status |-> IF x.error # TWI_None THEN AT24CM0X_Status_TWI_Error
                    ELSE AT24CM0X_Status_Done]

\* mutant: no positioning phase, the chip's address counter is read
ReadByteCalls_NoPositioning(ident, address) ==
    <<Start, Address(ident, TWI_Read), Get(1, TWI_NACK), Stop>>

\* mutant: the read phase repeats the device-select byte of the address phase
ReadByteCalls_HighBitsInReadPhase(ident, address) ==
    <<Start>> \o at24cm0x_send_address(ident, address) \o <<Stop>>
    \o <<Start, Address(at24cm0x_send_address(ident, address)[1].byte, TWI_Read),
         Get(1, TWI_NACK), Stop>>

ReadByteCalls(ident, address) ==
    <<Start>> \o at24cm0x_send_address(ident, address) \o <<Stop>>
    \o <<Start, Address(ident, TWI_Read), Get(1, TWI_NACK), Stop>>

\* mutant: the device-select byte of the address phase is kept in the
\* identifier
at24cm0x_read_byte_KeepsHighBits(w, address, data) ==
    IF address >= AT24CM0X_MEMORY_SIZE
    THEN [w |-> [w EXCEPT !.buf = <<data>>], status |-> AT24CM0X_Status_Address_Error]
    ELSE LET x == Run(w, <<data>>, ReadByteCalls(w.ident, address))
         IN  [w |-> [x EXCEPT !.ident = at24cm0x_send_address(w.ident, address)[1].byte],
              status |-> IF x.error # TWI_None THEN AT24CM0X_Status_TWI_Error
                         ELSE AT24CM0X_Status_Done]

at24cm0x_read_byte(w, address, data) ==
    IF address >= AT24CM0X_MEMORY_SIZE
    THEN [w |-> [w EXCEPT !.buf = <<data>>], status |-> AT24CM0X_Status_Address_Error]
    ELSE LET x == Run(w, <<data>>, ReadByteCalls(w.ident, address))
         IN  [w |-> x,
              status |-> IF x.error # TWI_None THEN AT24CM0X_Status_TWI_Error
                         ELSE AT24CM0X_Status_Done]

\* mutant: the last byte is acknowledged like the others
ReceiveLoop_NoTerminalNack(size) ==
    [i \in 1..size |-> Get(i, IF i - 1 > size - 1 THEN TWI_NACK ELSE TWI_Ack)]

\* the receive loop of at24cm0x_read_sequential (i of the code is i - 1)
ReceiveLoop(size) ==
    [i \in 1..size |-> Get(i, IF i - 1 >= size - 1 THEN TWI_NACK ELSE TWI_Ack)]

ReadSequentialCalls(ident, address, size) ==
    <<Start>> \o at24cm0x_send_address(ident, address) \o <<Stop>>
    \o <<Start, Address(ident, TWI_Read)>> \o ReceiveLoop(size) \o <<Stop>>

\* mutant: the read phase is given up when the positioning phase failed
at24cm0x_read_sequential_AbortOnFault(w, address, data, size) ==
    IF address >= AT24CM0X_MEMORY_SIZE
    THEN [w |-> [w EXCEPT !.buf = data], status |-> AT24CM0X_Status_Address_Error]
    ELSE IF size = 0
    THEN [w |-> [w EXCEPT !.buf = data], status |-> AT24CM0X_Status_Size_Error]
    ELSE LET p == Run(w, data, <<Start>> \o at24cm0x_send_address(w.ident, address)
                               \o <<Stop>>)
             x == IF p.error # TWI_None THEN p
                  ELSE Exec(p, <<Start, Address(w.ident, TWI_Read)>>
                               \o ReceiveLoop(size) \o <<Stop>>)
         IN  [w |-> x,
              status |-> IF x.error # TWI_None THEN AT24CM0X_Status_TWI_Error
                         ELSE AT24CM0X_Status_Done]

\* mutant: a read that runs past the last address is refused
at24cm0x_read_sequential_RangeChecked(w, address, data, size) ==
    IF address >= AT24CM0X_MEMORY_SIZE
    THEN [w |-> [w EXCEPT !.buf = data], status |-> AT24CM0X_Status_Address_Error]
    ELSE IF size = 0 \/ address + size > AT24CM0X_MEMORY_SIZE
    THEN [w |-> [w EXCEPT !.buf = data], status |-> AT24CM0X_Status_Size_Error]
    ELSE LET x == Run(w, data, ReadSequentialCalls(w.ident, address, size))
         IN  [w |-> x,
              status |-> IF x.error # TWI_None THEN AT24CM0X_Status_TWI_Error
                         ELSE AT24CM0X_Status_Done]

\* data is the content of the caller's buffer before the call
at24cm0x_read_sequential(w, address, data, size) ==
    IF address >= AT24CM0X_MEMORY_SIZE
    THEN [w |-> [w EXCEPT !.buf = data], status |-> AT24CM0X_Status_Address_Error]
    ELSE IF size = 0
    THEN [w |-> [w EXCEPT !.buf = data], status |-> AT24CM0X_Status_Size_Error]
    ELSE LET x == Run(w, data, ReadSequentialCalls(w.ident, address, size))
         IN  [w |-> x,
              status |-> IF x.error # TWI_None THEN AT24CM0X_Status_TWI_Error
                         ELSE AT24CM0X_Status_Done]

WpCalls(b, mode) == IF b.wp THEN <<Wp(mode)>> ELSE <<>>

\* at24cm0x_write_byte up to the stop condition (lines 113-120)
WriteByteCalls(b, ident, address, data) ==
    WpCalls(b, AT24CM0X_WP_Mode_Disabled)
    \o <<Start>> \o at24cm0x_send_address(ident, address) \o <<Set(data), Stop>>

WriteByteTransfer(w, address, data) ==
    Run(w, <<>>, WriteByteCalls(w.build, w.ident, address, data))

\* mutant: the pin is left alone when the transfer failed
WriteByteFinish_NoRelockOnError(w, address, data) ==
    LET w1 == Exec(w, WpCalls(w.build, AT24CM0X_WP_Mode_Enabled))
        rb == at24cm0x_read_byte(w1, address, 0)
    IN  IF w.error # TWI_None
        THEN [w |-> w, status |-> AT24CM0X_Status_TWI_Error]
        ELSE IF ~w.build.integrity
        THEN [w |-> w1, status |-> AT24CM0X_Status_Done]
        ELSE IF rb.status # AT24CM0X_Status_Done
        THEN [w |-> rb.w, status |-> AT24CM0X_Status_TWI_Error]
        ELSE IF data # rb.w.buf[1]
        THEN [w |-> rb.w, status |-> AT24CM0X_Status_Data_Error]
        ELSE [w |-> rb.w, status |-> AT24CM0X_Status_Done]

\* at24cm0x_write_byte after the write-completion wait (lines 128-151); w
\* holds the error of the transfer
WriteByteFinish(w, address, data) ==
    LET w1 == Exec(w, WpCalls(w.build, AT24CM0X_WP_Mode_Enabled))
        rb == at24cm0x_read_byte(w1, address, 0)
    IN  IF w.error # TWI_None
        THEN [w |-> w1, status |-> AT24CM0X_Status_TWI_Error]
        ELSE IF ~w.build.integrity
        THEN [w |-> w1, status |-> AT24CM0X_Status_Done]
        ELSE IF rb.status # AT24CM0X_Status_Done
        THEN [w |-> rb.w, status |-> AT24CM0X_Status_TWI_Error]
        ELSE IF data # rb.w.buf[1]
        THEN [w |-> rb.w, status |-> AT24CM0X_Status_Data_Error]
        ELSE [w |-> rb.w, status |-> AT24CM0X_Status_Done]

\* mutant: the buffer index does not advance
TransmitLoop_FirstByteOnly(data, size) == [i \in 1..size |-> Set(data[1])]

\* the transmit loop of at24cm0x_write_page (i of the code is i - 1)
TransmitLoop(data, size) == [i \in 1..size |-> Set(data[i])]

\* mutant: the high address byte is sent as a third address byte
WritePageCalls_HighByteSent(b, ident, page, data, size) ==
    LET address == page * AT24CM0X_PAGE_SIZE
    IN  WpCalls(b, AT24CM0X_WP_Mode_Disabled)
        \o <<Start, Address(ident, TWI_Write), Set(UChar(Shr(address, 16))),
             Set(UChar(Shr(address, 8))), Set(UChar(address))>>
        \o TransmitLoop(data, size) \o <<Stop>>

\* mutant: the page is written from its second byte on
WritePageCalls_OffByOne(b, ident, page, data, size) ==
    LET address == page * AT24CM0X_PAGE_SIZE + 1
    IN  WpCalls(b, AT24CM0X_WP_Mode_Disabled)
        \o <<Start>> \o Discard(at24cm0x_send_address(ident, address))
        \o TransmitLoop(data, size) \o <<Stop>>

\* at24cm0x_write_page up to the stop condition (lines 186-199); the value
\* at24cm0x_send_address returns is not used
WritePageCalls(b, ident, page, data, size) ==
    LET address == page * AT24CM0X_PAGE_SIZE
    IN  WpCalls(b, AT24CM0X_WP_Mode_Disabled)
        \o <<Start>> \o Discard(at24cm0x_send_address(ident, address))
        \o TransmitLoop(data, size) \o <<Stop>>

WritePageTransfer(w, page, data, size) ==
    Run(w, <<>>, WritePageCalls(w.build, w.ident, page, data, size))

\* mutant: only the first byte is compared
Mismatch_FirstOnly(buffer, data, size) == buffer[1] # data[1]

\* the comparison loop of at24cm0x_write_page (lines 219-225)
Mismatch(buffer, data, size) == \E i \in 1..size : buffer[i] # data[i]

\* mutant: the pin is left alone when a data byte was not acknowledged
WritePageFinish_NoRelockOnError(w, page, data, size) ==
    LET address == page * AT24CM0X_PAGE_SIZE
        w1 == IF w.error # TWI_None THEN w
              ELSE Exec(w, WpCalls(w.build, AT24CM0X_WP_Mode_Enabled))
        rb == at24cm0x_read_sequential(w1, address, [i \in 1..size |-> 0], size)
    IN  IF w.build.integrity /\ rb.status # AT24CM0X_Status_Done
        THEN [w |-> rb.w, status |-> AT24CM0X_Status_TWI_Error]
        ELSE IF w.build.integrity /\ Mismatch(rb.w.buf, data, size)
        THEN [w |-> rb.w, status |-> AT24CM0X_Status_Data_Error]
        ELSE [w |-> IF w.build.integrity THEN rb.w ELSE w1,
              status |-> IF w.error # TWI_None THEN AT24CM0X_Status_TWI_Error
                         ELSE AT24CM0X_Status_Done]

\* at24cm0x_write_page after the write-completion wait (lines 207-232); w
\* holds the error of the transfer
WritePageFinish(w, page, data, size) ==
    LET address == page * AT24CM0X_PAGE_SIZE
        w1 == Exec(w, WpCalls(w.build, AT24CM0X_WP_Mode_Enabled))
        rb == at24cm0x_read_sequential(w1, address, [i \in 1..size |-> 0], size)
    IN  IF w.build.integrity /\ rb.status # AT24CM0X_Status_Done
        THEN [w |-> rb.w, status |-> AT24CM0X_Status_TWI_Error]
        ELSE IF w.build.integrity /\ Mismatch(rb.w.buf, data, size)
        THEN [w |-> rb.w, status |-> AT24CM0X_Status_Data_Error]
        ELSE [w |-> IF w.build.integrity THEN rb.w ELSE w1,
              status |-> IF w.error # TWI_None THEN AT24CM0X_Status_TWI_Error
                         ELSE AT24CM0X_Status_Done]

\* mutant: the first address past the memory is accepted
WriteByteCheck_OffByOne(address) ==
    IF address > AT24CM0X_MEMORY_SIZE THEN AT24CM0X_Status_Address_Error
    ELSE AT24CM0X_Status_Done

\* the check of at24cm0x_write_byte before the bus is touched (lines 108-111)
WriteByteCheck(address) ==
    IF address >= AT24CM0X_MEMORY_SIZE THEN AT24CM0X_Status_Address_Error
    ELSE AT24CM0X_Status_Done

\* mutant: no delay after a transfer that failed
at24cm0x_write_byte_WaitOnSuccess(w, address, data) ==
    IF WriteByteCheck(address) # AT24CM0X_Status_Done
    THEN [w |-> w, status |-> WriteByteCheck(address)]
    ELSE LET t == WriteByteTransfer(w, address, data)
         IN  WriteByteFinish(IF t.error # TWI_None THEN t
                             ELSE Exec(t, <<Wait(AT24CM0X_WRITE_CYCLE_MS)>>),
                             address, data)

\* at24cm0x_write_byte of a build with the fixed delay
at24cm0x_write_byte(w, address, data) ==
    IF WriteByteCheck(address) # AT24CM0X_Status_Done
    THEN [w |-> w, status |-> WriteByteCheck(address)]
    ELSE WriteByteFinish(Exec(WriteByteTransfer(w, address, data),
                              <<Wait(AT24CM0X_WRITE_CYCLE_MS)>>),
                         address, data)

\* mutant: the size is looked at before the page
WritePageCheck_SizeFirst(page, size) ==
    IF size = 0 \/ size >= AT24CM0X_PAGE_SIZE THEN AT24CM0X_Status_Size_Error
    ELSE IF page >= AT24CM0X_PAGES THEN AT24CM0X_Status_Page_Error
    ELSE AT24CM0X_Status_Done

\* mutant: an empty buffer is accepted
WritePageCheck_EmptyAccepted(page, size) ==
    IF page >= AT24CM0X_PAGES THEN AT24CM0X_Status_Page_Error
    ELSE IF size >= AT24CM0X_PAGE_SIZE THEN AT24CM0X_Status_Size_Error
    ELSE AT24CM0X_Status_Done

\* the checks of at24cm0x_write_page before the bus is touched (lines 176-184)
WritePageCheck(page, size) ==
    IF page >= AT24CM0X_PAGES THEN AT24CM0X_Status_Page_Error
    ELSE IF size = 0 \/ size >= AT24CM0X_PAGE_SIZE THEN AT24CM0X_Status_Size_Error
    ELSE AT24CM0X_Status_Done

\* at24cm0x_write_page of a build with the fixed delay
at24cm0x_write_page(w, page, data, size) ==
    IF WritePageCheck(page, size) # AT24CM0X_Status_Done
    THEN [w |-> w, status |-> WritePageCheck(page, size)]
    ELSE WritePageFinish(Exec(WritePageTransfer(w, page, data, size),
                              <<Wait(AT24CM0X_WRITE_CYCLE_MS)>>),
                         page, data, size)

\* mutant: every poll is taken as not acknowledged
PollOnce_NeverReady(w, r) ==
    LET w1 == [w EXCEPT !.faults = {w.n + 1}]
        w2 == Exec(w1, <<Start, Discard(<<Address(w.ident, TWI_Write)>>)[1]>>)
    IN  [w2 EXCEPT !.faults = w.faults, !.n = w.n]

\* mutant: the device is addressed without a start condition
PollOnce_NoStart(w, r) ==
    LET w1 == [w EXCEPT !.faults = IF r = TWI_None THEN {} ELSE {w.n + 1}]
        w2 == Exec(w1, <<Discard(<<Address(w.ident, TWI_Write)>>)[1]>>)
    IN  [w2 EXCEPT !.faults = w.faults, !.n = w.n]

\* one round of the loop of at24cm0x_write_acknowledge_polling; r is the
\* chip's answer to the device-select byte
PollOnce(w, r) ==
    LET w1 == [w EXCEPT !.faults = IF r = TWI_None THEN {} ELSE {w.n + 1}]
        w2 == Exec(w1, <<Start, Discard(<<Address(w.ident, TWI_Write)>>)[1]>>)
    IN  [w2 EXCEPT !.faults = w.faults, !.n = w.n]

at24cm0x_init(w) ==
    LET w1 == IF w.build.wp THEN at24cm0x_wp(w, AT24CM0X_WP_Mode_Enabled) ELSE w
    IN  [w1 EXCEPT !.ident = IF w.build.multi THEN AT24CM0X_BASE_ADDRESS
                             ELSE AT24CM0X_ADDRESS]

\* mutant: the identifier is taken as it is
at24cm0x_device_NoMask(w, identifier) ==
    [w EXCEPT !.ident = BitOr(AT24CM0X_BASE_ADDRESS, identifier)]

at24cm0x_device(w, identifier) ==
    [w EXCEPT !.ident = BitOr(AT24CM0X_BASE_ADDRESS,
                              BitAnd(identifier, AT24CM0X_ADDRESS_MASK))]

(***************************************************************************)
(* The inputs of the operations.                                           *)
(***************************************************************************)
\* most acknowledge polls one write is made to repeat
MaxPolls == 2

\* 0x00000, 0x1A2B3 and the first address past the memory
WriteAddrs == {0, 107187, AT24CM0X_MEMORY_SIZE}
\* and 0x1FFFF
ReadAddrs == WriteAddrs \cup {131071}
\* the start of page 3, the last address and the first address past the memory
SeqAddrs == {3 * AT24CM0X_PAGE_SIZE, AT24CM0X_MEMORY_SIZE - 1, AT24CM0X_MEMORY_SIZE}
\* 0x7E
DataBytes == {126}
PageArgs == {3, AT24CM0X_PAGES}
Buffers == {[i \in 1..MaxLen |-> (17 * i) % 256]}
WriteSizes == (0..MaxLen) \cup {AT24CM0X_PAGE_SIZE}
ReadSizes == 0..MaxLen
\* 0xFB and 0xFF have bits outside AT24CM0X_ADDRESS_MASK
Identifiers == {0, 4, 5, 251, 255}
Builds == [wp : BOOLEAN, poll : BOOLEAN, integrity : BOOLEAN, multi : BOOLEAN]

\* cells that hold data of earlier use: the cells behind the addresses read
PreloadedCells == {0, 1, 2, 769, 770, 771, 107188, 131072}
Preloaded ==
    [k \in Devices \X PreloadedCells |-> 160 + (k[2] % 16)]
\* 0x1A2B3 and 0x301
WornCells == {107187, 769}

\* content of a caller's variable that no call has stored into
Unset == 0 - 1

\* the sets of primitive calls, out of the first k of an operation, that fail
RECURSIVE FaultSetsUpTo(_, _)
FaultSetsUpTo(k, m) ==
    IF m = 0 THEN {{}}
    ELSE LET S == FaultSetsUpTo(k, m - 1)
         IN  S \cup {F \cup {i} : F \in S, i \in 1..k}

FaultSets(k) == FaultSetsUpTo(k, MaxFaults)

\* every set of calls, out of the first k of an operation
AllFaultSets(k) == SUBSET (1..k)

Faults(all, k) == IF all THEN AllFaultSets(k) ELSE FaultSets(k)

\* data: the byte of write_byte or the identifier of at24cm0x_device; buf: the
\* buffer of write_page; mode: the mode of at24cm0x_wp
NoCall == [op |-> "init", address |-> 0, page |-> 0, data |-> 0, buf |-> <<>>,
           size |-> 0, mode |-> "", faults |-> {}]
\* acc.polls: the polls of the operation that the chip did not acknowledge
NoAcc == [error |-> TWI_None, n |-> 0, polls |-> 0]

World(F) ==
    [build |-> build, ident |-> at24cm0x_device_identifier, pin |-> wp_pin,
     mem |-> mem, worn |-> worn, ptr |-> ptr, ph |-> "idle",
     sel |-> AT24CM0X_BASE_ADDRESS,
     hi |-> 0, mid |-> 0, n |-> 0, faults |-> F, trace |-> <<>>,
     r |-> TWI_None, error |-> TWI_None, buf |-> <<>>]

\* the operation returns st, having stored o through its data pointer
Return(w, c, st, o) ==
    /\ at24cm0x_device_identifier' = w.ident
    /\ wp_pin' = w.pin
    /\ mem' = w.mem
    /\ ptr' = w.ptr
    /\ trace' = w.trace
    /\ call' = c
    /\ status' = st
    /\ out' = o
    /\ pc' = "idle"
    /\ acc' = [NoAcc EXCEPT !.polls = IF pc = "poll" THEN acc.polls ELSE 0]
    /\ ops' = IF pc = "idle" THEN ops + 1 ELSE ops
    /\ UNCHANGED <<build, worn>>

\* the operation is inside at24cm0x_write_acknowledge_polling
Suspend(w, c, polls) ==
    /\ at24cm0x_device_identifier' = w.ident
    /\ wp_pin' = w.pin
    /\ mem' = w.mem
    /\ ptr' = w.ptr
    /\ trace' = w.trace
    /\ call' = c
    /\ status' = "running"
    /\ out' = <<>>
    /\ pc' = "poll"
    /\ acc' = [error |-> w.error, n |-> w.n, polls |-> polls]
    /\ ops' = IF pc = "idle" THEN ops + 1 ELSE ops
    /\ UNCHANGED <<build, worn>>

(***************************************************************************)
(* The state after at24cm0x_init(), and the operations.                    *)
(***************************************************************************)
Init ==
    /\ build \in Builds
    /\ at24cm0x_device_identifier =
           IF build.multi THEN AT24CM0X_BASE_ADDRESS ELSE AT24CM0X_ADDRESS
    /\ wp_pin = IF build.wp THEN AT24CM0X_WP_Mode_Enabled ELSE AT24CM0X_WP_Mode_Disabled
    /\ mem = [k \in {} |-> Erased]
    /\ worn = {}
    /\ ptr = [d \in Devices |-> 0]
    /\ pc = "idle"
    /\ call = NoCall
    /\ status = AT24CM0X_Status_Done
    /\ out = <<>>
    /\ trace = IF build.wp THEN <<<<"wp", AT24CM0X_WP_Mode_Enabled>>>> ELSE <<>>
    /\ acc = NoAcc
    /\ ops = 0

\* the same for chips that have been in use: some cells hold data, and the
\* cells 0x1A2B3 and 0x301 are worn out
InitAged ==
    /\ build \in Builds
    /\ at24cm0x_device_identifier =
           IF build.multi THEN AT24CM0X_BASE_ADDRESS ELSE AT24CM0X_ADDRESS
    /\ wp_pin = IF build.wp THEN AT24CM0X_WP_Mode_Enabled ELSE AT24CM0X_WP_Mode_Disabled
    /\ mem = Preloaded
    /\ worn = WornCells
    /\ ptr = [d \in Devices |-> 0]
    /\ pc = "idle"
    /\ call = NoCall
    /\ status = AT24CM0X_Status_Done
    /\ out = <<>>
    /\ trace = IF build.wp THEN <<<<"wp", AT24CM0X_WP_Mode_Enabled>>>> ELSE <<>>
    /\ acc = NoAcc
    /\ ops = 0

InitOp ==
    /\ pc = "idle"
    /\ ops < MaxOps
    /\ Return(at24cm0x_init(World({})), NoCall, AT24CM0X_Status_Done, <<>>)

SelectDevice ==
    /\ pc = "idle"
    /\ ops < MaxOps
    /\ build.multi
    /\ \E identifier \in Identifiers :
           Return(at24cm0x_device(World({}), identifier),
                  [NoCall EXCEPT !.op = "device", !.data = identifier],
                  AT24CM0X_Status_Done, <<>>)

WpOp ==
    /\ pc = "idle"
    /\ ops < MaxOps
    /\ build.wp
    /\ \E mode \in {AT24CM0X_WP_Mode_Enabled, AT24CM0X_WP_Mode_Disabled} :
           Return(at24cm0x_wp(World({}), mode),
                  [NoCall EXCEPT !.op = "wp", !.mode = mode],
                  AT24CM0X_Status_Done, <<>>)

\* The operations that use the bus are written for a bound most on the number
\* of operations; all says whether any set of their calls fails, or a set of at
\* most MaxFaults calls.

\* the primitive calls of a write operation, its read-back included
WriteByteCallCount == IF build.integrity THEN 9 ELSE 4
WritePageCallCount(size) == IF build.integrity THEN 7 + 2 * size ELSE 3 + size

WriteByteUnder(most, all) ==
    /\ pc = "idle"
    /\ ops < most
    /\ \E address \in WriteAddrs, data \in DataBytes :
       \E F \in IF WriteByteCheck(address) # AT24CM0X_Status_Done THEN {{}}
                ELSE Faults(all, WriteByteCallCount) :
       \E w \in {World(F)} :
           LET c == [NoCall EXCEPT !.op = "write_byte", !.address = address,
                                   !.data = data, !.faults = F]
           IN  IF build.poll /\ WriteByteCheck(address) = AT24CM0X_Status_Done
               THEN \E t \in {WriteByteTransfer(w, address, data)} : Suspend(t, c, 0)
               ELSE \E r \in {at24cm0x_write_byte(w, address, data)} :
                        Return(r.w, c, r.status, <<>>)

WriteByte == WriteByteUnder(MaxOps, FALSE)

WritePageUnder(most, all) ==
    /\ pc = "idle"
    /\ ops < most
    /\ \E page \in PageArgs, data \in Buffers, size \in WriteSizes :
       \E F \in IF WritePageCheck(page, size) # AT24CM0X_Status_Done THEN {{}}
                ELSE Faults(all, WritePageCallCount(size)) :
       \E w \in {World(F)} :
           LET c == [NoCall EXCEPT !.op = "write_page", !.page = page,
                                   !.buf = data, !.size = size, !.faults = F]
           IN  IF build.poll /\ WritePageCheck(page, size) = AT24CM0X_Status_Done
               THEN \E t \in {WritePageTransfer(w, page, data, size)} : Suspend(t, c, 0)
               ELSE \E r \in {at24cm0x_write_page(w, page, data, size)} :
                        Return(r.w, c, r.status, <<>>)

WritePage == WritePageUnder(MaxOps, FALSE)

\* at24cm0x_write_acknowledge_polling (lines 61-71), one round per step with
\* r the result of twi_address, and the rest of the write operation once the
\* loop is left
PollStep(r) ==
    /\ pc = "poll"
    /\ \E w \in {[World(call.faults) EXCEPT !.n = acc.n, !.trace = trace,
                                            !.error = acc.error]} :
       \E p \in {PollOnce(w, r)} :
           IF p.r = TWI_Ack
           THEN /\ acc.polls < MaxPolls
                /\ Suspend(p, call, acc.polls + 1)
           ELSE \E w2 \in {twi_stop(p)} :
                \E f \in {IF call.op = "write_byte"
                          THEN WriteByteFinish(w2, call.address, call.data)
                          ELSE WritePageFinish(w2, call.page, call.buf, call.size)} :
                    Return(f.w, call, f.status, <<>>)

\* the chip answers a poll with NACK while its write cycle lasts
Poll == \E r \in {TWI_None, TWI_Ack} : PollStep(r)

ReadCurrentByteUnder(most, all) ==
    /\ pc = "idle"
    /\ ops < most
    /\ \E F \in Faults(all, 2) :
       \E w \in {World(F)} :
       \E r \in {at24cm0x_read_current_byte(w, Unset)} :
           Return(r.w, [NoCall EXCEPT !.op = "read_current_byte", !.faults = F],
                  r.status, r.w.buf)

ReadCurrentByte == ReadCurrentByteUnder(MaxOps, FALSE)

ReadByteUnder(most, all) ==
    /\ pc = "idle"
    /\ ops < most
    /\ \E address \in ReadAddrs :
       \E F \in IF address >= AT24CM0X_MEMORY_SIZE THEN {{}} ELSE Faults(all, 5) :
       \E w \in {World(F)} :
       \E r \in {at24cm0x_read_byte(w, address, Unset)} :
           Return(r.w, [NoCall EXCEPT !.op = "read_byte", !.address = address,
                                      !.faults = F],
                  r.status, r.w.buf)

ReadByte == ReadByteUnder(MaxOps, FALSE)

ReadSequentialUnder(most, all) ==
    /\ pc = "idle"
    /\ ops < most
    /\ \E address \in SeqAddrs, size \in ReadSizes :
       \E F \in IF address >= AT24CM0X_MEMORY_SIZE \/ size = 0 THEN {{}}
                ELSE Faults(all, 4 + size) :
       \E w \in {World(F)} :
       \E r \in {at24cm0x_read_sequential(w, address, [i \in 1..size |-> Unset], size)} :
           Return(r.w, [NoCall EXCEPT !.op = "read_sequential",
                                      !.address = address, !.size = size,
                                      !.faults = F],
                  r.status, r.w.buf)

ReadSequential == ReadSequentialUnder(MaxOps, FALSE)

Next ==
    \/ InitOp
    \/ SelectDevice
    \/ WpOp
    \/ WriteByte
    \/ WritePage
    \/ Poll
    \/ ReadCurrentByte
    \/ ReadByte
    \/ ReadSequential

Spec == Init /\ [][Next]_vars

\* the driver on chips that have been in use
SpecAged == InitAged /\ [][Next]_vars

\* The write cycle of a chip ends: a chip that is polled answers ACK in the
\* end.  A step that leaves the polling loop is a step of PollStep(TWI_None),
\* and there is one in every state of the loop.
LeavePoll == pc = "poll" /\ pc' = "idle"

FairSpec == Init /\ [][Next]_vars /\ WF_pc(LeavePoll)

\* One operation on a bus where any set of its primitive calls fails.
MaxOpsAllFaults == 1

NextAllFaults ==
    \/ WriteByteUnder(MaxOpsAllFaults, TRUE)
    \/ WritePageUnder(MaxOpsAllFaults, TRUE)
    \/ Poll
    \/ ReadCurrentByteUnder(MaxOpsAllFaults, TRUE)
    \/ ReadByteUnder(MaxOpsAllFaults, TRUE)
    \/ ReadSequentialUnder(MaxOpsAllFaults, TRUE)

SpecAllFaults == Init /\ [][NextAllFaults]_vars

(***************************************************************************)
(* Vocabulary of the properties.                                           *)
(***************************************************************************)
EvS == <<"S">>
EvP == <<"P">>
EvAddr(byte, dir) == <<"addr", byte, dir>>
EvSend(byte) == <<"send", byte>>
EvRecv(policy) == <<"recv", policy>>
EvWait(ms) == <<"wait", ms>>

\* the last operation has returned
Returned(op) == pc = "idle" /\ call.op = op

\* the last operation passed its argument checks
Accepted ==
    status \notin {AT24CM0X_Status_Address_Error, AT24CM0X_Status_Page_Error,
                   AT24CM0X_Status_Size_Error}

\* the build of the end-to-end scenarios: every switch off, A2 strapped high
PlainBuild == ~build.wp /\ ~build.poll /\ ~build.integrity /\ ~build.multi

\* the device-select byte of address a: the two high address bits in bits 1..0
Dev7(a) == at24cm0x_device_identifier + ((a \div 65536) % 4)

\* the chip that at24cm0x_device_identifier selects holds d at address a
Holds(a, d) == Cell(mem, at24cm0x_device_identifier, a) = d

\* index in the trace of the start condition of a write transaction
WriteStart == IF build.wp THEN 2 ELSE 1

\* the three bytes of the address phase of address a sit at trace[k..k+2]
AddressPhaseAt(k, a) ==
    /\ Len(trace) >= k + 2
    /\ trace[k] = EvAddr(Dev7(a), "W")
    /\ trace[k + 1] = EvSend((a \div 256) % 256)
    /\ trace[k + 2] = EvSend(a % 256)

(***************************************************************************)
(* C1.  Round trip of a byte: on a fault-free bus, write_byte(a, d) that   *)
(* returns Done, followed at once by read_byte(a), makes read_byte return  *)
(* Done with the byte d, also for a >= 0x10000.                            *)
(***************************************************************************)
C1_ByteRoundTrip ==
    [][(/\ Returned("write_byte") /\ status = AT24CM0X_Status_Done
        /\ call.faults = {}
        /\ pc' = "idle" /\ call'.op = "read_byte"
        /\ call'.address = call.address /\ call'.faults = {})
       => (status' = AT24CM0X_Status_Done /\ out' = <<call.data>>)]_vars

\* read_byte of an address in the upper banks returned a programmed byte
C1_Witness ==
    /\ Returned("read_byte") /\ call.address >= 65536 /\ call.faults = {}
    /\ status = AT24CM0X_Status_Done /\ out = <<126>>
    /\ Holds(call.address, 126)

(***************************************************************************)
(* C2.  Round trip of a page: on a fault-free bus, write_page(p, b, n)     *)
(* that returns Done, followed at once by read_sequential(p * PAGE_SIZE,   *)
(* out, n), makes read_sequential return Done with out = b[0..n-1].        *)
(***************************************************************************)
C2_PageRoundTrip ==
    [][(/\ Returned("write_page") /\ status = AT24CM0X_Status_Done
        /\ call.faults = {}
        /\ pc' = "idle" /\ call'.op = "read_sequential"
        /\ call'.address = call.page * AT24CM0X_PAGE_SIZE
        /\ call'.size = call.size /\ call'.faults = {})
       => (status' = AT24CM0X_Status_Done /\ out' = SubSeq(call.buf, 1, call.size))]_vars

\* read_sequential returned the three bytes a page write had programmed
C2_Witness ==
    /\ Returned("read_sequential") /\ call.address = 3 * AT24CM0X_PAGE_SIZE
    /\ call.size = 3 /\ call.faults = {}
    /\ status = AT24CM0X_Status_Done /\ out = <<17, 34, 51>>

(***************************************************************************)
(* C3.  A page write is atomic: whenever write_page(p, b, n) returns Done  *)
(* the chip holds b[0..n-1] at p * PAGE_SIZE .. p * PAGE_SIZE + n - 1.     *)
(***************************************************************************)
C3_PageWriteAtomic ==
    (Returned("write_page") /\ status = AT24CM0X_Status_Done)
        => \A i \in 1..call.size :
               Holds(call.page * AT24CM0X_PAGE_SIZE + i - 1, call.buf[i])

(***************************************************************************)
(* C4.  In write_page a fault of any call of the address phase (the        *)
(* device-select byte or one of the two address bytes, calls 1..3) makes   *)
(* write_page return TWI_Error.                                            *)
(***************************************************************************)
C4_PageAddressFault ==
    (Returned("write_page") /\ Accepted /\ call.faults \cap (1..3) # {})
        => status = AT24CM0X_Status_TWI_Error

(***************************************************************************)
(* C5.  In write_byte, read_byte, read_sequential and read_current_byte    *)
(* with valid arguments, a fault of any bus call of the operation makes it *)
(* return TWI_Error, and Done is returned only when no call failed.        *)
(* As stated, every bus call counts, the device-select probes of           *)
(* acknowledge polling included.                                           *)
(***************************************************************************)
ByteOrReadOp ==
    call.op \in {"write_byte", "read_byte", "read_sequential", "read_current_byte"}

C5_AnyFaultIsTransportError ==
    (pc = "idle" /\ ByteOrReadOp /\ Accepted)
        => /\ (call.faults # {} \/ acc.polls > 0) => status = AT24CM0X_Status_TWI_Error
           /\ status = AT24CM0X_Status_Done => (call.faults = {} /\ acc.polls = 0)

\* C5 as amended: the calls of the transaction and of the read-back count;
\* the result of a probe of acknowledge polling is not accumulated.
C5_FaultIsTransportError ==
    (pc = "idle" /\ ByteOrReadOp /\ Accepted)
        => /\ call.faults # {} => status = AT24CM0X_Status_TWI_Error
           /\ status = AT24CM0X_Status_Done => call.faults = {}

\* the read-back of write_byte failed at its receive call
C5_Witness ==
    /\ Returned("write_byte") /\ build.integrity /\ call.faults = {9}
    /\ status = AT24CM0X_Status_TWI_Error

(***************************************************************************)
(* C6.  In the read phase of read_byte(a) and read_sequential(a, ...) the  *)
(* device is addressed in read direction with the device-select byte of    *)
(* the positioning phase, device_select_byte | ((a >> 16) & HIGH_MASK).    *)
(***************************************************************************)
RandomReadOp == call.op \in {"read_byte", "read_sequential"}

C6_ReadPhaseCarriesHighBits ==
    (pc = "idle" /\ RandomReadOp /\ Accepted)
        => /\ trace[2] = EvAddr(Dev7(call.address), "W")
           /\ trace[7] = EvAddr(Dev7(call.address), "R")

\* C6 as amended: the read phase addresses at24cm0x_device_identifier itself,
\* without the high address bits; read_byte(0x1FFFF) with A2 = 1 addresses
\* 0x55 in write direction and then 0x54 in read direction.
C6_ReadPhaseUsesIdentifier ==
    (pc = "idle" /\ RandomReadOp /\ Accepted)
        => /\ trace[1] = EvS
           /\ trace[2] = EvAddr(Dev7(call.address), "W")
           /\ trace[5] = EvP
           /\ trace[6] = EvS
           /\ trace[7] = EvAddr(at24cm0x_device_identifier, "R")
           /\ (call.address = 131071 /\ at24cm0x_device_identifier = 84)
                  => (trace[2] = EvAddr(85, "W") /\ trace[7] = EvAddr(84, "R"))

C6_Witness ==
    /\ Returned("read_byte") /\ call.address = 131071
    /\ at24cm0x_device_identifier = 84
    /\ status = AT24CM0X_Status_Done

(***************************************************************************)
(* C7.  Address encoding: the address phase of address a emits exactly     *)
(* three bytes: the device-select byte device_select_byte | ((a >> 16) &   *)
(* HIGH_MASK) in write direction, then (a >> 8) & 0xFF, then a & 0xFF.     *)
(* For a = 0x1A2B3 the bytes are 0x55, 0xA2, 0xB3, and write_byte(0, 0x7E) *)
(* of the plain build gives S, addr(0x54,W), send(0), send(0), send(0x7E), *)
(* P, wait_ms(10).                                                         *)
(***************************************************************************)
C7_AddressEncoding ==
    /\ (call.op = "write_byte" /\ Accepted)
           => /\ trace[WriteStart] = EvS
              /\ AddressPhaseAt(WriteStart + 1, call.address)
              /\ trace[WriteStart + 4] = EvSend(call.data)
              /\ trace[WriteStart + 5] = EvP
    /\ (RandomReadOp /\ Accepted)
           => /\ trace[1] = EvS
              /\ AddressPhaseAt(2, call.address)
              /\ trace[5] = EvP
    /\ (call.op \in {"write_byte", "read_byte"} /\ call.address = 107187
            /\ at24cm0x_device_identifier = 84)
           => LET k == IF call.op = "write_byte" THEN WriteStart + 1 ELSE 2
              IN  SubSeq(trace, k, k + 2) = <<EvAddr(85, "W"), EvSend(162), EvSend(179)>>
    /\ (PlainBuild /\ call.op = "write_byte" /\ call.address = 0 /\ call.data = 126
            /\ call.faults = {})
           => /\ trace = <<EvS, EvAddr(84, "W"), EvSend(0), EvSend(0), EvSend(126),
                           EvP, EvWait(10)>>
              /\ status = AT24CM0X_Status_Done

C7_Witness ==
    /\ PlainBuild /\ Returned("write_byte") /\ call.address = 0 /\ call.data = 126
    /\ call.faults = {} /\ status = AT24CM0X_Status_Done
    /\ Len(trace) = 7

(***************************************************************************)
(* C8.  On-wire layout of a page write, as stated: start, the              *)
(* device-select byte in write direction, three address bytes sent         *)
(* ((A >> 16) & 0xFF, (A >> 8) & 0xFF, A & 0xFF), the n data bytes in      *)
(* order, stop.                                                            *)
(***************************************************************************)
PageAddress == call.page * AT24CM0X_PAGE_SIZE

C8_ThreeAddressSends ==
    (call.op = "write_page" /\ Accepted)
        => /\ trace[WriteStart] = EvS
           /\ trace[WriteStart + 1] = EvAddr(Dev7(PageAddress), "W")
           /\ trace[WriteStart + 2] = EvSend((PageAddress \div 65536) % 256)
           /\ trace[WriteStart + 3] = EvSend((PageAddress \div 256) % 256)
           /\ trace[WriteStart + 4] = EvSend(PageAddress % 256)
           /\ \A i \in 1..call.size : trace[WriteStart + 4 + i] = EvSend(call.buf[i])
           /\ trace[WriteStart + 5 + call.size] = EvP

\* C8 as amended: after the device-select byte, which carries the high
\* address bits, two address bytes are sent, then the n data bytes in order,
\* then stop, then the write-completion wait; write_page(3, [0x11,0x22,0x33], 3)
\* of the plain build gives S, addr(0x54,W), send(0x03), send(0x00),
\* send(0x11), send(0x22), send(0x33), P, wait_ms(10) and returns Done.
C8_PageWriteLayout ==
    /\ (call.op = "write_page" /\ Accepted)
           => /\ trace[WriteStart] = EvS
              /\ AddressPhaseAt(WriteStart + 1, PageAddress)
              /\ \A i \in 1..call.size : trace[WriteStart + 3 + i] = EvSend(call.buf[i])
              /\ trace[WriteStart + 4 + call.size] = EvP
              /\ (~build.poll /\ pc = "idle")
                     => trace[WriteStart + 5 + call.size] = EvWait(AT24CM0X_WRITE_CYCLE_MS)
              /\ (build.poll /\ pc = "idle")
                     => trace[WriteStart + 5 + call.size] = EvS
    /\ (PlainBuild /\ call.op = "write_page" /\ call.page = 3 /\ call.size = 3
            /\ call.faults = {})
           => /\ trace = <<EvS, EvAddr(84, "W"), EvSend(3), EvSend(0), EvSend(17),
                           EvSend(34), EvSend(51), EvP, EvWait(10)>>
              /\ status = AT24CM0X_Status_Done

C8_Witness ==
    /\ PlainBuild /\ Returned("write_page") /\ call.page = 3 /\ call.size = 3
    /\ call.buf = <<17, 34, 51>> /\ call.faults = {}
    /\ status = AT24CM0X_Status_Done /\ Len(trace) = 9

(***************************************************************************)
(* C9.  Terminal NACK: read_sequential(a, buf, n) with n >= 1 and a valid  *)
(* address makes exactly n receive calls, the first n - 1 with ACK and the *)
(* last one with NACK, then stop; buf[i] holds the i-th received byte.     *)
(***************************************************************************)
C9_TerminalNack ==
    (Returned("read_sequential") /\ Accepted)
        => /\ Len(trace) = 8 + call.size
           /\ \A i \in 1..call.size :
                  trace[7 + i] = EvRecv(IF i = call.size THEN "NACK" ELSE "ACK")
           /\ trace[8 + call.size] = EvP
           /\ \A k \in 1..7 : trace[k][1] # "recv"
           /\ Len(out) = call.size
           /\ call.faults = {}
                  => \A i \in 1..call.size :
                         out[i] = Cell(mem, at24cm0x_device_identifier,
                                       (call.address + i - 1) % AT24CM0X_MEMORY_SIZE)

C9_Witness ==
    /\ Returned("read_sequential") /\ call.size = 3 /\ call.faults = {}
    /\ status = AT24CM0X_Status_Done
    /\ SubSeq(trace, 8, 11) = <<EvRecv("ACK"), EvRecv("ACK"), EvRecv("NACK"), EvP>>

(***************************************************************************)
(* C10.  For every address a >= MEMORY_SIZE, write_byte, read_byte and     *)
(* read_sequential (for any size, 0 included) return Address_Error and     *)
(* make no bus call.                                                       *)
(***************************************************************************)
C10_AddressError ==
    (call.op \in {"write_byte", "read_byte", "read_sequential"}
        /\ call.address >= AT24CM0X_MEMORY_SIZE)
        => /\ pc = "idle"
           /\ status = AT24CM0X_Status_Address_Error
           /\ trace = <<>>

C10_Witness ==
    /\ Returned("read_sequential") /\ call.address = AT24CM0X_MEMORY_SIZE
    /\ call.size = 0 /\ status = AT24CM0X_Status_Address_Error /\ trace = <<>>

(***************************************************************************)
(* Vocabulary of the properties of the write path.                         *)
(***************************************************************************)
EvWp(mode) == <<"wp", mode>>

WriteOp == call.op \in {"write_byte", "write_page"}

\* index in the trace of the stop condition of the write transaction
WriteStop ==
    IF call.op = "write_byte" THEN WriteStart + 5 ELSE WriteStart + 4 + call.size

\* index of the last call of the write-completion wait of a write that has
\* returned: the delay, or the stop condition after acc.polls + 1 polls
WaitEnd == IF build.poll THEN WriteStop + 2 * (acc.polls + 1) + 1 ELSE WriteStop + 1

\* the indexes of the trace that hold event e
Where(e) == {k \in 1..Len(trace) : trace[k] = e}

(***************************************************************************)
(* C11.  For every page p >= PAGES and every size n, n = 0 and             *)
(* n >= PAGE_SIZE included, write_page(p, _, n) returns Page_Error and     *)
(* makes no call of the bus, the delay source or the pin.                  *)
(***************************************************************************)
C11_PageError ==
    (call.op = "write_page" /\ call.page >= AT24CM0X_PAGES)
        => /\ pc = "idle"
           /\ status = AT24CM0X_Status_Page_Error
           /\ trace = <<>>

\* a page past the end with a size that is out of range as well
C11_Witness ==
    /\ Returned("write_page") /\ call.page = AT24CM0X_PAGES
    /\ call.size = AT24CM0X_PAGE_SIZE
    /\ status = AT24CM0X_Status_Page_Error /\ trace = <<>>

(***************************************************************************)
(* C12.  For a page p < PAGES, write_page(p, _, n) with n = 0 or           *)
(* n >= PAGE_SIZE (a full page included) returns Size_Error without a bus  *)
(* call, and read_sequential(a, _, 0) with a < MEMORY_SIZE returns         *)
(* Size_Error without a bus call.                                          *)
(***************************************************************************)
C12_SizeError ==
    /\ (call.op = "write_page" /\ call.page < AT24CM0X_PAGES
            /\ (call.size = 0 \/ call.size >= AT24CM0X_PAGE_SIZE))
           => /\ pc = "idle"
              /\ status = AT24CM0X_Status_Size_Error
              /\ trace = <<>>
    /\ (call.op = "read_sequential" /\ call.address < AT24CM0X_MEMORY_SIZE
            /\ call.size = 0)
           => /\ status = AT24CM0X_Status_Size_Error
              /\ trace = <<>>

\* a full page of PAGE_SIZE bytes was refused
C12_Witness ==
    /\ Returned("write_page") /\ call.page = 3 /\ call.size = AT24CM0X_PAGE_SIZE
    /\ status = AT24CM0X_Status_Size_Error /\ trace = <<>>

(***************************************************************************)
(* C13.  Write-protect bracket, as stated: in a build with WP control a    *)
(* write_byte or write_page that passes validation de-asserts WP before    *)
(* its first bus call and re-asserts WP after its last bus call, with or   *)
(* without integrity check.                                                *)
(***************************************************************************)
C13_WpAfterLastBusCall ==
    (build.wp /\ pc = "idle" /\ WriteOp /\ Accepted)
        => /\ trace[1] = EvWp(AT24CM0X_WP_Mode_Disabled)
           /\ trace[Len(trace)] = EvWp(AT24CM0X_WP_Mode_Enabled)

\* C13 as amended: WP is de-asserted before the first bus call and
\* re-asserted once, right after the write-completion wait that follows the
\* write transaction, with or without a bus fault; the read-back of the
\* integrity check runs after the re-assertion, with the chip protected.
C13_WpBracket ==
    (build.wp /\ WriteOp /\ Accepted)
        => /\ Where(EvWp(AT24CM0X_WP_Mode_Disabled)) = {1}
           /\ pc = "poll" => /\ Where(EvWp(AT24CM0X_WP_Mode_Enabled)) = {}
                             /\ wp_pin = AT24CM0X_WP_Mode_Disabled
           /\ pc = "idle" => /\ Where(EvWp(AT24CM0X_WP_Mode_Enabled)) = {WaitEnd + 1}
                             /\ Where(EvP) \cap (1..WaitEnd) # {}
                             /\ build.integrity \/ Len(trace) = WaitEnd + 1
                             /\ \A k \in (WaitEnd + 2)..Len(trace) :
                                    trace[k][1] \in {"S", "P", "addr", "send", "recv"}

\* a write whose transfer failed re-asserted WP, and one with a read-back
\* re-asserted it before the read-back
C13_Witness ==
    /\ build.wp /\ build.integrity /\ Returned("write_page") /\ call.size = 3
    /\ call.faults = {} /\ status = AT24CM0X_Status_Done
    /\ trace[WaitEnd + 1] = EvWp(AT24CM0X_WP_Mode_Enabled)
    /\ Len(trace) > WaitEnd + 1

(***************************************************************************)
(* C14.  The device is never left unlocked, as stated: in a build with WP  *)
(* control, after any sequence of public operations, the WP pin is Enabled *)
(* at every return of write_byte and write_page, whatever the status,      *)
(* the statuses of the argument checks included.                           *)
(***************************************************************************)
C14_NeverUnlocked ==
    (build.wp /\ pc = "idle" /\ WriteOp) => wp_pin = AT24CM0X_WP_Mode_Enabled

\* C14 as amended: the pin is Enabled after at24cm0x_init(); a write_byte or
\* write_page that passes validation returns with the pin Enabled, whatever
\* its status and whatever the pin was before; and the pin is Disabled
\* between two operations only when the caller's own at24cm0x_wp(Disabled)
\* made it so, or when it was so before an operation that leaves the pin
\* alone (a read, a device selection, a write refused by validation).
C14_WritesRelock ==
    /\ build.wp => wp_pin = AT24CM0X_WP_Mode_Enabled
    /\ [][build.wp =>
            /\ (pc' = "idle" /\ call'.op = "init")
                   => wp_pin' = AT24CM0X_WP_Mode_Enabled
            /\ (pc' = "idle" /\ call'.op \in {"write_byte", "write_page"} /\ Accepted')
                   => wp_pin' = AT24CM0X_WP_Mode_Enabled
            /\ (pc' = "idle" /\ wp_pin' = AT24CM0X_WP_Mode_Disabled)
                   => \/ call'.op = "wp" /\ call'.mode = AT24CM0X_WP_Mode_Disabled
                      \/ /\ pc = "idle" /\ wp_pin = AT24CM0X_WP_Mode_Disabled
                         /\ call'.op \notin {"init", "wp"}
                         /\ ~Accepted' \/ call'.op \notin {"write_byte", "write_page"}
        ]_vars

\* a page write whose first data byte was not acknowledged returned with the
\* chip locked
C14_Witness ==
    /\ build.wp /\ ~build.integrity /\ Returned("write_page")
    /\ call.faults = {4} /\ status = AT24CM0X_Status_TWI_Error
    /\ wp_pin = AT24CM0X_WP_Mode_Enabled
    /\ trace[Len(trace)] = EvWp(AT24CM0X_WP_Mode_Enabled)

(***************************************************************************)
(* C15.  Integrity check: in a build with integrity check, when no bus     *)
(* primitive of the write and of the read-back reports a fault, write_byte *)
(* and write_page return Data_Error if the data read back differs from the *)
(* intended data in at least one position and Done if it is equal; when    *)
(* the read-back itself fails they return TWI_Error.  (A read-back without *)
(* fault delivers the content of the cells, so the cells are compared.)    *)
(***************************************************************************)
\* the bytes of the write called last: how many, where to, and which
Written == IF call.op = "write_byte" THEN 1 ELSE call.size
WrittenAt(i) == IF call.op = "write_byte" THEN call.address ELSE PageAddress + i - 1
Intended(i) == IF call.op = "write_byte" THEN call.data ELSE call.buf[i]

\* the numbers of the primitive calls of the read-back
ReadBackCalls ==
    IF call.op = "write_byte" THEN 5..9 ELSE (4 + call.size)..(7 + 2 * call.size)

C15_IntegrityCheck ==
    (build.integrity /\ pc = "idle" /\ WriteOp /\ Accepted)
        => /\ call.faults = {}
                  => status = IF \A i \in 1..Written : Holds(WrittenAt(i), Intended(i))
                              THEN AT24CM0X_Status_Done
                              ELSE AT24CM0X_Status_Data_Error
           /\ (call.faults # {} /\ call.faults \subseteq ReadBackCalls)
                  => status = AT24CM0X_Status_TWI_Error

\* a page write on a fault-free bus whose second byte did not take
C15_Witness ==
    /\ build.integrity /\ Returned("write_page") /\ call.size = 3 /\ call.faults = {}
    /\ status = AT24CM0X_Status_Data_Error
    /\ Holds(PageAddress, 17) /\ ~Holds(PageAddress + 1, 34) /\ Holds(PageAddress + 2, 51)

(***************************************************************************)
(* C16.  In a multi-device build at24cm0x_device(id) sets the device       *)
(* identifier to BASE_ADDRESS | (id & ADDRESS_MASK) (the mask is 0x04, so  *)
(* 4, 5 and 0xFF select 0x54, and 0 and 0xFB select 0x50) without a call   *)
(* of the bus; no operation but at24cm0x_device and at24cm0x_init changes  *)
(* it, and every transaction that follows builds its device-select bytes   *)
(* on it.                                                                  *)
(***************************************************************************)
C16_SelectDevice ==
    [][build.multi =>
        /\ call'.op = "device"
               => /\ pc' = "idle" /\ trace' = <<>>
                  /\ at24cm0x_device_identifier' =
                         AT24CM0X_BASE_ADDRESS + 4 * ((call'.data \div 4) % 2)
                  /\ call'.data \in {4, 5, 255} => at24cm0x_device_identifier' = 84
                  /\ call'.data \in {0, 251} => at24cm0x_device_identifier' = 80
        /\ call'.op \notin {"device", "init"}
               => at24cm0x_device_identifier' = at24cm0x_device_identifier
        /\ (call'.op \in {"read_byte", "read_sequential"} /\ Accepted')
               => /\ trace'[2] = EvAddr(at24cm0x_device_identifier
                                            + ((call'.address \div 65536) % 4), "W")
                  /\ trace'[7] = EvAddr(at24cm0x_device_identifier, "R")
        /\ call'.op = "read_current_byte"
               => trace'[2] = EvAddr(at24cm0x_device_identifier, "R")
        /\ (call'.op = "write_byte" /\ Accepted')
               => trace'[WriteStart + 1] =
                      EvAddr(at24cm0x_device_identifier
                                 + ((call'.address \div 65536) % 4), "W")
        /\ (call'.op = "write_page" /\ Accepted')
               => trace'[WriteStart + 1] =
                      EvAddr(at24cm0x_device_identifier
                                 + (((call'.page * AT24CM0X_PAGE_SIZE) \div 65536) % 4), "W")
      ]_vars

\* after at24cm0x_device(0xFF) a read of 0x1FFFF addressed 0x55 and then 0x54
C16_Witness ==
    /\ build.multi /\ Returned("read_byte") /\ call.address = 131071
    /\ at24cm0x_device_identifier = 84 /\ status = AT24CM0X_Status_Done
    /\ trace[2] = EvAddr(85, "W") /\ trace[7] = EvAddr(84, "R")

(***************************************************************************)
(* C17.  read_current_byte has no word-address phase: its calls are start, *)
(* the device identifier in read direction, one receive with NACK, stop.   *)
(* After a read_byte(a) or read_sequential(a, _, n) that returned Done, a  *)
(* read_current_byte that follows at once on a fault-free bus returns Done *)
(* with the byte stored at (last address read + 1) mod MEMORY_SIZE.        *)
(***************************************************************************)
\* the last address the read operation called last has accessed
LastRead ==
    IF call.op = "read_byte" THEN call.address ELSE call.address + call.size - 1

C17_ReadCurrentByte ==
    [][call'.op = "read_current_byte" =>
        /\ pc' = "idle"
        /\ trace' = <<EvS, EvAddr(at24cm0x_device_identifier, "R"), EvRecv("NACK"), EvP>>
        /\ (/\ pc = "idle" /\ RandomReadOp /\ status = AT24CM0X_Status_Done
            /\ call'.faults = {})
               => /\ status' = AT24CM0X_Status_Done
                  /\ out' = <<Cell(mem, at24cm0x_device_identifier,
                                    (LastRead + 1) % AT24CM0X_MEMORY_SIZE)>>
      ]_vars

\* after read_byte(0x1FFFF) the byte of cell 0x20000 was returned
C17_Witness ==
    /\ Returned("read_current_byte") /\ call.faults = {}
    /\ status = AT24CM0X_Status_Done /\ out = <<160>>
    /\ ptr[at24cm0x_device_identifier] = 131073

(***************************************************************************)
(* C18.  Acknowledge polling: after the stop condition of a write the      *)
(* driver repeats (start, device identifier in write direction) while the  *)
(* chip answers NACK, leaves the loop at the first ACK and then issues one *)
(* stop: a chip that is busy for k polls sees k + 1 start/address pairs    *)
(* and then one stop.  acc.polls is k.                                     *)
(***************************************************************************)
C18_AcknowledgePolling ==
    (build.poll /\ WriteOp /\ Accepted)
        => /\ \A j \in 1..acc.polls :
                  /\ trace[WriteStop + 2 * j - 1] = EvS
                  /\ trace[WriteStop + 2 * j] = EvAddr(at24cm0x_device_identifier, "W")
           /\ pc = "poll" => Len(trace) = WriteStop + 2 * acc.polls
           /\ pc = "idle"
                  => /\ Len(trace) >= WaitEnd
                     /\ trace[WaitEnd - 2] = EvS
                     /\ trace[WaitEnd - 1] = EvAddr(at24cm0x_device_identifier, "W")
                     /\ trace[WaitEnd] = EvP
                     /\ Where(EvP) \cap (WriteStop + 1)..WaitEnd = {WaitEnd}
                     /\ Where(EvWait(AT24CM0X_WRITE_CYCLE_MS)) = {}

\* a write that was polled three times: two NACK, then ACK
C18_Witness ==
    /\ build.poll /\ Returned("write_byte") /\ call.address = 107187
    /\ acc.polls = 2 /\ status = AT24CM0X_Status_Done
    /\ SubSeq(trace, WriteStop + 1, WaitEnd)
           = <<EvS, EvAddr(at24cm0x_device_identifier, "W"),
               EvS, EvAddr(at24cm0x_device_identifier, "W"),
               EvS, EvAddr(at24cm0x_device_identifier, "W"), EvP>>

Waits == {k \in 1..Len(trace) : trace[k][1] = "wait"}

C20_WaitAfterWrite ==
    (pc = "idle" /\ WriteOp /\ Accepted)
        => /\ Len(trace) >= WaitEnd
           /\ Where(EvS) \cap (1..WriteStop) = {WriteStart}
           /\ Where(EvP) \cap (1..WriteStop) = {WriteStop}
           /\ ~build.poll
                  => /\ trace[WriteStop + 1] = EvWait(AT24CM0X_WRITE_CYCLE_MS)
                     /\ Waits = {WriteStop + 1}
           /\ build.poll
                  => /\ Waits = {}
                     /\ \A k \in (WriteStop + 1)..(WaitEnd - 1) :
                            trace[k] = IF (k - WriteStop) % 2 = 1 THEN EvS
                                       ELSE EvAddr(at24cm0x_device_identifier, "W")
                     /\ trace[WaitEnd] = EvP
           /\ \A k \in (WaitEnd + 1)..Len(trace) :
                  \/ trace[k][1] \in {"S", "P", "addr", "send", "recv"} /\ build.integrity
                  \/ trace[k][1] = "wp" /\ k = WaitEnd + 1

\* the delay ran after a write_byte whose data byte was not acknowledged
C20_Witness ==
    /\ ~build.poll /\ Returned("write_byte") /\ call.faults = {4}
    /\ status = AT24CM0X_Status_TWI_Error
    /\ trace[WriteStop + 1] = EvWait(AT24CM0X_WRITE_CYCLE_MS)

(***************************************************************************)
(* C21.  The integrity check of write_page mirrors the byte path: in a     *)
(* build with integrity check a write_byte or write_page whose write       *)
(* transaction reported a bus fault returns TWI_Error after the wait and   *)
(* the WP re-assertion, never Data_Error, and makes no bus call of a       *)
(* read-back.                                                              *)
(***************************************************************************)
\* the numbers of the primitive calls whose result the write transaction
\* ORs into its error
TransferCalls == IF call.op = "write_byte" THEN 1..4 ELSE 4..(3 + call.size)

\* index of the last call of a write that makes no read-back
NoReadBackEnd == IF build.wp THEN WaitEnd + 1 ELSE WaitEnd

C21_FaultSkipsReadBack ==
    (build.integrity /\ pc = "idle" /\ WriteOp /\ Accepted
        /\ call.faults \cap TransferCalls # {})
        => /\ status = AT24CM0X_Status_TWI_Error
           /\ Len(trace) = NoReadBackEnd

(***************************************************************************)
(* C22.  Invariant of the device identifier: in every state after          *)
(* at24cm0x_init() the identifier has no bit of ADDRESS_HIGH_MASK set and, *)
(* outside ADDRESS_MASK, equals BASE_ADDRESS; write_byte, write_page,      *)
(* read_byte, read_sequential and read_current_byte leave it unchanged     *)
(* (the high address bits are ORed only into the byte sent on the wire),   *)
(* so it changes only by at24cm0x_device and at24cm0x_init.                *)
(***************************************************************************)
\* ~x of an unsigned char
NotUChar(x) == 255 - x

C22_DeviceSelectInvariant ==
    /\ [](/\ BitAnd(at24cm0x_device_identifier, AT24CM0X_ADDRESS_HIGH_MASK) = 0
          /\ BitAnd(at24cm0x_device_identifier, NotUChar(AT24CM0X_ADDRESS_MASK))
                 = AT24CM0X_BASE_ADDRESS
          /\ \A k \in 1..Len(trace) :
                 trace[k][1] = "addr"
                     => /\ DeviceOf(trace[k][2]) = at24cm0x_device_identifier
                        /\ trace[k][3] = "R" => HighOf(trace[k][2]) = 0)
    /\ [][/\ call'.op \notin {"device", "init"}
                 => at24cm0x_device_identifier' = at24cm0x_device_identifier
          /\ ~build.multi => at24cm0x_device_identifier' = at24cm0x_device_identifier
         ]_vars

\* a read of 0x1FFFF put 0x55 on the wire and left the identifier at 0x54
C22_Witness ==
    /\ Returned("read_byte") /\ call.address = 131071
    /\ status = AT24CM0X_Status_Done
    /\ trace[2] = EvAddr(85, "W")
    /\ at24cm0x_device_identifier = 84
    /\ BitAnd(at24cm0x_device_identifier, AT24CM0X_ADDRESS_HIGH_MASK) = 0

(***************************************************************************)
(* C23.  Frame of a write: write_byte(a, d) changes at most cell a of the  *)
(* selected chip, and write_page(p, b, n) changes at most the cells        *)
(* p * PAGE_SIZE .. p * PAGE_SIZE + n - 1, all inside page p; every other  *)
(* cell of every chip is unchanged, a call that is refused by validation   *)
(* changes no cell, and the read operations change no cell.                *)
(***************************************************************************)
\* the cells whose content a step changes
Changed ==
    {k \in DOMAIN mem \cup DOMAIN mem' : Cell(mem, k[1], k[2]) # Cell(mem', k[1], k[2])}

C23_WriteFrame ==
    [][/\ call'.op = "write_byte"
              => Changed \subseteq {<<at24cm0x_device_identifier, call'.address>>}
       /\ (call'.op = "write_page" /\ Accepted')
              => /\ Changed \subseteq
                        {<<at24cm0x_device_identifier,
                           call'.page * AT24CM0X_PAGE_SIZE + i - 1>> : i \in 1..call'.size}
                 /\ \A k \in Changed :
                        /\ k[2] >= call'.page * AT24CM0X_PAGE_SIZE
                        /\ k[2] < (call'.page + 1) * AT24CM0X_PAGE_SIZE
       /\ ~Accepted' => Changed = {}
       /\ call'.op \notin {"write_byte", "write_page"} => Changed = {}
      ]_vars

\* write_page(3, b, 1) programmed cell 0x300 and left the data of the cells
\* 0x301 and 0x302 alone
C23_Witness ==
    /\ Returned("write_page") /\ call.page = 3 /\ call.size = 1 /\ call.faults = {}
    /\ status = AT24CM0X_Status_Done
    /\ Holds(768, 17) /\ Holds(769, 161) /\ Holds(770, 162)

(***************************************************************************)
(* C24.  No abort and no retry.  In a build with the fixed delay, for      *)
(* fixed valid arguments, the calls of the bus, the delay source and the   *)
(* pin made by the write transaction of write_byte and write_page, and the *)
(* calls made by read_byte, read_sequential and read_current_byte, are the *)
(* same whatever results the bus returns: after a fault the remaining      *)
(* sends or receives, the stop and (for a write) the wait are still made,  *)
(* and none is made twice.  At every return the last bus condition issued  *)
(* is a stop.  The sequences below depend on the arguments alone.          *)
(***************************************************************************)
ReadOp == call.op \in {"read_byte", "read_sequential", "read_current_byte"}

ExpectedAddressPhase(a) ==
    <<EvAddr(Dev7(a), "W"), EvSend((a \div 256) % 256), EvSend(a % 256)>>

\* the write transaction, its wait and the calls of the pin around them
ExpectedWrite ==
    (IF build.wp THEN <<EvWp(AT24CM0X_WP_Mode_Disabled)>> ELSE <<>>)
    \o <<EvS>> \o ExpectedAddressPhase(WrittenAt(1))
    \o [i \in 1..Written |-> EvSend(Intended(i))]
    \o <<EvP, EvWait(AT24CM0X_WRITE_CYCLE_MS)>>
    \o (IF build.wp THEN <<EvWp(AT24CM0X_WP_Mode_Enabled)>> ELSE <<>>)

\* the number of bytes the read operation called last receives
Received == IF call.op = "read_sequential" THEN call.size ELSE 1

ExpectedRead ==
    (IF call.op = "read_current_byte" THEN <<>>
     ELSE <<EvS>> \o ExpectedAddressPhase(call.address) \o <<EvP>>)
    \o <<EvS, EvAddr(at24cm0x_device_identifier, "R")>>
    \o [i \in 1..Received |-> EvRecv(IF i = Received THEN "NACK" ELSE "ACK")]
    \o <<EvP>>

\* the indexes of the trace that hold a start or a stop condition
Conditions == Where(EvS) \cup Where(EvP)

C24_NoAbortNoRetry ==
    /\ (~build.poll /\ pc = "idle" /\ WriteOp /\ Accepted)
           => /\ Len(trace) >= Len(ExpectedWrite)
              /\ SubSeq(trace, 1, Len(ExpectedWrite)) = ExpectedWrite
              /\ ~build.integrity => trace = ExpectedWrite
    /\ (pc = "idle" /\ ReadOp /\ Accepted) => trace = ExpectedRead
    /\ (pc = "idle" /\ Conditions # {})
           => \E k \in Where(EvP) : \A j \in Conditions : j <= k

\* a sequential read all of whose seven bus calls failed
C24_Witness ==
    /\ Returned("read_sequential") /\ call.size = 3 /\ call.faults = 1..7
    /\ status = AT24CM0X_Status_TWI_Error
    /\ Len(trace) = 11 /\ trace[Len(trace)] = EvP

(***************************************************************************)
(* C25.  read_sequential validates the start address only: for every       *)
(* a < MEMORY_SIZE and every n >= 1, also when a + n > MEMORY_SIZE,        *)
(* read_sequential(a, buf, n) never returns Address_Error or Size_Error;   *)
(* it makes n receive calls and on a fault-free bus returns Done.  The     *)
(* bytes past the last address are those the chip delivers after its       *)
(* address counter has rolled over, here the cells from address 0 on.      *)
(***************************************************************************)
\* the indexes of the trace that hold a receive call
Receives == {k \in 1..Len(trace) : trace[k][1] = "recv"}

\* the read runs past the last address of the memory
PastTheEnd == call.address + call.size > AT24CM0X_MEMORY_SIZE

C25_StartAddressOnly ==
    (Returned("read_sequential") /\ call.address < AT24CM0X_MEMORY_SIZE
        /\ call.size >= 1)
        => /\ status \in {AT24CM0X_Status_Done, AT24CM0X_Status_TWI_Error}
           /\ Cardinality(Receives) = call.size
           /\ call.faults = {}
                  => /\ status = AT24CM0X_Status_Done
                     /\ Len(out) = call.size
                     /\ PastTheEnd
                            => \A i \in 1..call.size :
                                   out[i] = Cell(mem, at24cm0x_device_identifier,
                                                 IF call.address + i - 1 < AT24CM0X_MEMORY_SIZE
                                                 THEN call.address + i - 1
                                                 ELSE call.address + i - 1
                                                          - AT24CM0X_MEMORY_SIZE)

\* three bytes from the last address on: the last cell, then the cells 0 and 1
C25_Witness ==
    /\ Returned("read_sequential") /\ call.address = AT24CM0X_MEMORY_SIZE - 1
    /\ call.size = 3 /\ call.faults = {} /\ PastTheEnd
    /\ status = AT24CM0X_Status_Done
    /\ out = <<Erased, 160, 161>>

====
